---- MODULE Spec2Model ----
(***************************************************************************)
(* Model of phone_book_managed_08.py: the Field/Record/AddressBook data    *)
(* model, the command handlers behind the input_error decorator, the main  *)
(* read loop and the pickle snapshot written at exit and read at start.    *)
(*                                                                         *)
(* A Python str is a sequence of one-character strings.  Characters that   *)
(* are not ASCII are written by code point ("U+00B2").  None is the empty  *)
(* sequence where the value is a sequence, and index 0 where it is a       *)
(* reference into the book.                                                *)
(***************************************************************************)
EXTENDS Integers, Sequences, FiniteSets, TLC

VARIABLES
    pc,         \* position of the process: "start", "loop", "done", "crashed"
    book,       \* the AddressBook of the running process: records in dict order
    disk,       \* addressbook.pkl: [exists, bytes]
    line,       \* the line last returned by input()
    out,        \* what print() wrote while the last line was handled
    nlines,     \* lines read so far, over all runs
    prevBook,   \* history: the book just before the last step
    hist,       \* history: per name, the phones of the adds that returned a message
    changed,    \* history: names a change command has edited
    phIn,       \* Phone construction: the constructor's argument
    phRes,      \* Phone construction: its result
    bdBook,     \* birthday window: the book
    bdNow,      \* birthday window: datetime.today()
    bdDays,     \* birthday window: the days argument
    bdRes       \* birthday window: the result

mainVars == <<pc, book, disk, line, out, nlines, prevBook, hist, changed>>
phVars == <<phIn, phRes>>
bdVars == <<bdBook, bdNow, bdDays, bdRes>>
vars == <<pc, book, disk, line, out, nlines, prevBook, hist, changed,
          phIn, phRes, bdBook, bdNow, bdDays, bdRes>>

----------------------------------------------------------------------------
(* Bounds *)

\* lines the read loop reads, over all runs of the program
MaxLines == 4

\* longest string handed to the Phone constructor on its own
MaxPhoneLen == 11

\* widest window asked of get_upcoming_birthdays on its own, besides 7 and 365
MaxWindow == 2

----------------------------------------------------------------------------
(* Characters and str methods *)

AsciiDigits == {"0", "1", "2", "3", "4", "5", "6", "7", "8", "9"}

\* U+0663 ARABIC-INDIC DIGIT THREE: a decimal digit (category Nd), value 3
UnicodeDecimals == {"U+0663"}

\* U+00B2 SUPERSCRIPT TWO: Numeric_Type=Digit, not a decimal digit
UnicodeDigits == {"U+00B2"}

Whitespace == {" ", "\t"}

\* str.isdigit(): non-empty and every character has the Unicode digit property
isdigit(s) ==
    /\ Len(s) > 0
    /\ \A i \in 1..Len(s) : s[i] \in AsciiDigits \cup UnicodeDecimals \cup UnicodeDigits

DigitValue(c) ==
    CASE c = "0" -> 0 [] c = "1" -> 1 [] c = "2" -> 2 [] c = "3" -> 3
      [] c = "4" -> 4 [] c = "5" -> 5 [] c = "6" -> 6 [] c = "7" -> 7
      [] c = "8" -> 8 [] c = "9" -> 9 [] c = "U+0663" -> 3

\* a string of n characters, all c except the last, which is d
Mk(c, d, n) == [i \in 1..n |-> IF i = n THEN d ELSE c]

RECURSIVE Join(_, _)
\* sep.join(strs)
Join(sep, strs) ==
    IF Len(strs) = 0 THEN <<>>
    ELSE IF Len(strs) = 1 THEN strs[1]
    ELSE strs[1] \o sep \o Join(sep, Tail(strs))

RECURSIVE LStrip(_)
LStrip(s) == IF Len(s) > 0 /\ s[1] \in Whitespace THEN LStrip(Tail(s)) ELSE s

RECURSIVE RStrip(_)
RStrip(s) ==
    IF Len(s) > 0 /\ s[Len(s)] \in Whitespace
    THEN RStrip(SubSeq(s, 1, Len(s) - 1)) ELSE s

\* str.strip()
Strip(s) == RStrip(LStrip(s))

RECURSIVE SplitAt(_, _, _)
\* s.split(sep) for a one-character sep; cur is the part being read
SplitAt(s, sep, cur) ==
    IF Len(s) = 0 THEN <<cur>>
    ELSE IF s[1] = sep THEN <<cur>> \o SplitAt(Tail(s), sep, <<>>)
    ELSE SplitAt(Tail(s), sep, Append(cur, s[1]))

Split(s, sep) == SplitAt(s, sep, <<>>)

----------------------------------------------------------------------------
(* Results of calls: exc = "" is a normal return of val, otherwise the     *)
(* exception class raised, with its message text and the values formatted  *)
(* into it; book is the AddressBook as the call left it.                   *)

Return(v, b) == [exc |-> "", text |-> "", args |-> <<>>, val |-> v, book |-> b]

Raise(e, t, a, b) == [exc |-> e, text |-> t, args |-> a, val |-> <<>>, book |-> b]

\* a printed message: a fixed text and the values formatted into it
Msg(t, a) == [prefix |-> "", text |-> t, args |-> a]

----------------------------------------------------------------------------
(* Field validation types *)

PhoneLen == 10

\* Phone.__init__: the stored value, or ValueError
Phone(value) ==
    IF ~isdigit(value) \/ Len(value) # PhoneLen
    THEN [exc |-> "ValueError", text |-> "Phone must have exactly 10 digits.", value |-> <<>>]
    ELSE [exc |-> "", text |-> "", value |-> value]

----------------------------------------------------------------------------
(* Calendar: datetime.date arithmetic of the proleptic Gregorian calendar  *)

IsLeap(y) == (y % 4 = 0) /\ ((y % 100 # 0) \/ (y % 400 = 0))

DaysInMonth(y, m) ==
    IF m = 2 THEN (IF IsLeap(y) THEN 29 ELSE 28)
    ELSE IF m \in {4, 6, 9, 11} THEN 30 ELSE 31

RECURSIVE DaysBeforeMonth(_, _)
DaysBeforeMonth(y, m) ==
    IF m = 1 THEN 0 ELSE DaysBeforeMonth(y, m - 1) + DaysInMonth(y, m - 1)

\* date.toordinal(): 1 for 01.01.0001
Ordinal(y, m, d) ==
    LET p == y - 1
    IN  p * 365 + (p \div 4) - (p \div 100) + (p \div 400) + DaysBeforeMonth(y, m) + d

\* a datetime: calendar date and the seconds since midnight
DateTime(y, m, d, s) == [y |-> y, m |-> m, d |-> d, s |-> s]

\* datetime.__lt__
DtLess(a, b) ==
    \/ Ordinal(a.y, a.m, a.d) < Ordinal(b.y, b.m, b.d)
    \/ Ordinal(a.y, a.m, a.d) = Ordinal(b.y, b.m, b.d) /\ a.s < b.s

\* (a - b).days: timedelta normalises to 0 <= seconds < 86400, so days is the floor
DeltaDays(a, b) ==
    LET dd == Ordinal(a.y, a.m, a.d) - Ordinal(b.y, b.m, b.d)
        ds == a.s - b.s
    IN  IF ds < 0 THEN dd - 1 ELSE dd

\* datetime.replace(year=y): ValueError when the month/day does not exist in y
ReplaceYear(dt, y) ==
    IF dt.d > DaysInMonth(y, dt.m)
    THEN [exc |-> "ValueError", text |-> "day is out of range for month", value |-> dt]
    ELSE [exc |-> "", text |-> "", value |-> DateTime(y, dt.m, dt.d, dt.s)]

----------------------------------------------------------------------------
(* Birthday: datetime.strptime(value, "%d.%m.%Y")                          *)

RECURSIVE IntOf(_)
\* int() of a string of decimal digits
IntOf(s) == IF Len(s) = 0 THEN 0 ELSE IntOf(SubSeq(s, 1, Len(s) - 1)) * 10 + DigitValue(s[Len(s)])

Digits19 == AsciiDigits \ {"0"}

\* the regular expression \d of a str pattern: any decimal digit
ReDigit(c) == c \in AsciiDigits \cup UnicodeDecimals

\* %d: 3[0-1]|[1-2]\d|0[1-9]|[1-9]| [1-9]
MatchDay(f) ==
    \/ Len(f) = 2 /\ f[1] = "3" /\ f[2] \in {"0", "1"}
    \/ Len(f) = 2 /\ f[1] \in {"1", "2"} /\ ReDigit(f[2])
    \/ Len(f) = 2 /\ f[1] \in {"0", " "} /\ f[2] \in Digits19
    \/ Len(f) = 1 /\ f[1] \in Digits19

\* %m: 1[0-2]|0[1-9]|[1-9]
MatchMonth(f) ==
    \/ Len(f) = 2 /\ f[1] = "1" /\ f[2] \in {"0", "1", "2"}
    \/ Len(f) = 2 /\ f[1] = "0" /\ f[2] \in Digits19
    \/ Len(f) = 1 /\ f[1] \in Digits19

\* %Y: \d\d\d\d
MatchYear(f) == Len(f) = 4 /\ \A i \in 1..4 : ReDigit(f[i])

\* Birthday.__init__ for a str argument: the parsed date at midnight, or ValueError
Birthday(value) ==
    LET f == Split(value, ".")
        bad == [exc |-> "ValueError", text |-> "Invalid date format. Use DD.MM.YYYY", value |-> <<>>]
    IN  IF Len(f) # 3 THEN bad
        ELSE IF ~(MatchDay(f[1]) /\ MatchMonth(f[2]) /\ MatchYear(f[3])) THEN bad
        ELSE LET d == IntOf(LStrip(f[1]))
                 m == IntOf(f[2])
                 y == IntOf(f[3])
             IN  IF y < 1 \/ d > DaysInMonth(y, m) THEN bad
                 ELSE [exc |-> "", text |-> "", value |-> <<DateTime(y, m, d, 0)>>]

RECURSIVE Pad(_, _)
\* zero padding to n characters
Pad(s, n) == IF Len(s) >= n THEN s ELSE Pad(<<"0">> \o s, n)

DigitChar(n) == CHOOSE c \in AsciiDigits : DigitValue(c) = n

RECURSIVE Str(_)
\* str() of a natural number
Str(n) == IF n < 10 THEN <<DigitChar(n)>> ELSE Append(Str(n \div 10), DigitChar(n % 10))

\* strftime("%d.%m.%Y") of a stored birthday
strftime(dt) == Pad(Str(dt.d), 2) \o <<".">> \o Pad(Str(dt.m), 2) \o <<".">> \o Pad(Str(dt.y), 4)

----------------------------------------------------------------------------
(* Record: [name, phones, birthday]; birthday is <<>> for None, <<dt>> else *)

\* Record.__init__
Record(name) == [name |-> name, phones |-> <<>>, birthday |-> <<>>]

\* add_phone that skips a value the record already holds
add_phone_dedup(record, phone) ==
    LET p == Phone(phone)
    IN  IF p.exc # "" THEN [exc |-> p.exc, text |-> p.text, rec |-> record]
        ELSE IF \E i \in 1..Len(record.phones) : record.phones[i] = p.value
        THEN [exc |-> "", text |-> "", rec |-> record]
        ELSE [exc |-> "", text |-> "", rec |-> [record EXCEPT !.phones = Append(@, p.value)]]

\* Record.add_phone
add_phone(record, phone) ==
    LET p == Phone(phone)
    IN  IF p.exc # "" THEN [exc |-> p.exc, text |-> p.text, rec |-> record]
        ELSE [exc |-> "", text |-> "", rec |-> [record EXCEPT !.phones = Append(@, p.value)]]

\* index of the first phone whose value is old_phone, 0 when there is none
FirstPhone(phones, old_phone) ==
    IF \E i \in 1..Len(phones) : phones[i] = old_phone
    THEN CHOOSE i \in 1..Len(phones) :
            /\ phones[i] = old_phone
            /\ \A j \in 1..(i - 1) : phones[j] # old_phone
    ELSE 0

\* edit_phone that stores new_phone when old_phone is not found
edit_phone_append(record, old_phone, new_phone) ==
    LET i == FirstPhone(record.phones, old_phone)
    IN  IF i = 0 THEN [record EXCEPT !.phones = Append(@, new_phone)]
        ELSE [record EXCEPT !.phones[i] = new_phone]

\* Record.edit_phone
edit_phone(record, old_phone, new_phone) ==
    LET i == FirstPhone(record.phones, old_phone)
    IN  IF i = 0 THEN record
        ELSE [record EXCEPT !.phones[i] = new_phone]

\* Record.add_birthday
add_birthday_rec(record, birthday) ==
    LET b == Birthday(birthday)
    IN  IF b.exc # "" THEN [exc |-> b.exc, text |-> b.text, rec |-> record]
        ELSE [exc |-> "", text |-> "", rec |-> [record EXCEPT !.birthday = b.value]]

----------------------------------------------------------------------------
(* AddressBook: the records of self.data in dict (insertion) order         *)

\* AddressBook.find: the position of the record, 0 for None
find(b, name) ==
    IF \E i \in 1..Len(b) : b[i].name = name
    THEN CHOOSE i \in 1..Len(b) : b[i].name = name
    ELSE 0

\* AddressBook.add_record: a new key goes last, an existing key keeps its place
add_record(b, record) ==
    LET i == find(b, record.name)
    IN  IF i = 0 THEN Append(b, record) ELSE [b EXCEPT ![i] = record]

RECURSIVE Upcoming(_, _, _, _)
\* the loop of get_upcoming_birthdays from record i on
Upcoming(b, today, days, i) ==
    IF i > Len(b) THEN [exc |-> "", text |-> "", val |-> <<>>]
    ELSE IF b[i].birthday = <<>> THEN Upcoming(b, today, days, i + 1)
    ELSE LET r1 == ReplaceYear(b[i].birthday[1], today.y)
         IN  IF r1.exc # "" THEN [exc |-> r1.exc, text |-> r1.text, val |-> <<>>]
             ELSE LET r2 == IF DtLess(r1.value, today)
                            THEN ReplaceYear(r1.value, today.y + 1) ELSE r1
                  IN  IF r2.exc # "" THEN [exc |-> r2.exc, text |-> r2.text, val |-> <<>>]
                      ELSE LET n == DeltaDays(r2.value, today)
                               rest == Upcoming(b, today, days, i + 1)
                           IN  IF rest.exc # "" THEN rest
                               ELSE IF 0 <= n /\ n <= days
                               THEN [rest EXCEPT !.val = <<b[i]>> \o @]
                               ELSE rest

\* AddressBook.get_upcoming_birthdays
get_upcoming_birthdays(b, today, days) == Upcoming(b, today, days, 1)

----------------------------------------------------------------------------
(* Persistence: pickle.dump / pickle.load of the AddressBook object graph  *)
(* as a stream of items [op, s, n]                                         *)

Item(op, str, n) == [op |-> op, s |-> str, n |-> n]

\* a snapshot that leaves the birthday attribute out
PickleBirthday_dropped(bd) == <<Item("NONE", <<>>, 0)>>

PickleBirthday(bd) ==
    IF bd = <<>> THEN <<Item("NONE", <<>>, 0)>>
    ELSE <<Item("DATETIME", <<>>, 0), Item("INT", <<>>, bd[1].y), Item("INT", <<>>, bd[1].m),
           Item("INT", <<>>, bd[1].d), Item("INT", <<>>, bd[1].s)>>

RECURSIVE PicklePhones(_)
PicklePhones(phones) ==
    IF Len(phones) = 0 THEN <<>>
    ELSE <<Item("PHONE", phones[1], 0)>> \o PicklePhones(Tail(phones))

\* one item of self.data: the key, then the Record with its three attributes
PickleRecord(r) ==
    <<Item("KEY", r.name, 0), Item("NAME", r.name, 0), Item("LIST", <<>>, Len(r.phones))>>
        \o PicklePhones(r.phones) \o PickleBirthday(r.birthday)

RECURSIVE PickleRecords(_)
PickleRecords(b) ==
    IF Len(b) = 0 THEN <<>> ELSE PickleRecord(b[1]) \o PickleRecords(Tail(b))

\* pickle.dump(book, f)
Pickle(b) == <<Item("DICT", <<>>, Len(b))>> \o PickleRecords(b)

RECURSIVE ReadPhones(_, _, _)
\* k Phone objects from position pos
ReadPhones(bytes, pos, k) ==
    IF k = 0 THEN [val |-> <<>>, pos |-> pos]
    ELSE LET rest == ReadPhones(bytes, pos + 1, k - 1)
         IN  [val |-> <<bytes[pos].s>> \o rest.val, pos |-> rest.pos]

ReadBirthday(bytes, pos) ==
    IF bytes[pos].op = "NONE" THEN [val |-> <<>>, pos |-> pos + 1]
    ELSE [val |-> <<DateTime(bytes[pos + 1].n, bytes[pos + 2].n, bytes[pos + 3].n, bytes[pos + 4].n)>>,
          pos |-> pos + 5]

ReadRecord(bytes, pos) ==
    LET ph == ReadPhones(bytes, pos + 3, bytes[pos + 2].n)
        bd == ReadBirthday(bytes, ph.pos)
    IN  [key |-> bytes[pos].s,
         val |-> [name |-> bytes[pos + 1].s, phones |-> ph.val, birthday |-> bd.val],
         pos |-> bd.pos]

RECURSIVE ReadRecords(_, _, _, _)
\* k dict items from position pos, set into b in stream order
ReadRecords(bytes, pos, k, b) ==
    IF k = 0 THEN b
    ELSE LET r == ReadRecord(bytes, pos)
         IN  ReadRecords(bytes, r.pos, k - 1, Append(b, r.val))

\* pickle.load(f)
Unpickle(bytes) == ReadRecords(bytes, 2, bytes[1].n, <<>>)

NoFile == [exists |-> FALSE, bytes |-> <<>>]

\* save_data
save_data(b) == [exists |-> TRUE, bytes |-> Pickle(b)]

\* load_data: FileNotFoundError gives an empty AddressBook
load_data(file) == IF file.exists THEN Unpickle(file.bytes) ELSE <<>>

----------------------------------------------------------------------------
(* int(): optional sign, then decimal digits, single underscores between   *)
(* digits allowed, surrounding whitespace ignored                          *)

RECURSIVE IsIntBody(_, _)
\* afterDigit: the character before s was a digit
IsIntBody(s, afterDigit) ==
    IF Len(s) = 0 THEN afterDigit
    ELSE IF ReDigit(s[1]) THEN IsIntBody(Tail(s), TRUE)
    ELSE IF s[1] = "_" THEN afterDigit /\ Len(s) > 1 /\ ReDigit(s[2]) /\ IsIntBody(Tail(s), FALSE)
    ELSE FALSE

RECURSIVE DropUnderscores(_)
DropUnderscores(s) ==
    IF Len(s) = 0 THEN <<>>
    ELSE IF s[1] = "_" THEN DropUnderscores(Tail(s))
    ELSE <<s[1]>> \o DropUnderscores(Tail(s))

PyInt(str) ==
    LET t == Strip(str)
        signed == Len(t) > 0 /\ t[1] \in {"+", "-"}
        body == IF signed THEN Tail(t) ELSE t
    IN  IF ~IsIntBody(body, FALSE)
        THEN [exc |-> "ValueError", text |-> "invalid literal for int() with base 10: {}", value |-> 0]
        ELSE [exc |-> "", text |-> "",
              value |-> IF signed /\ t[1] = "-" THEN 0 - IntOf(DropUnderscores(body))
                        ELSE IntOf(DropUnderscores(body))]

----------------------------------------------------------------------------
(* Command handlers, as written under the decorator                        *)

NotFound(name, b) == Raise("ValueError", "Contact {} not found in AddressBook.", <<name>>, b)

\* tuple unpacking of args into `need` names, with a starred rest or without
Unpack(args, need, starred, b) ==
    IF Len(args) < need
    THEN Raise("ValueError", "not enough values to unpack", <<>>, b)
    ELSE IF ~starred /\ Len(args) > need
    THEN Raise("ValueError", "too many values to unpack", <<>>, b)
    ELSE Return(<<>>, b)

\* add_contact that tells "Contact added." whether or not the Record existed
add_contact_always_added(args, b) ==
    IF Len(args) < 2 \/ ~isdigit(args[2])
    THEN Raise("ValueError", "Please provide both name and a valid phone number.", <<>>, b)
    ELSE LET name == args[1]
             phone == args[2]
             found == find(b, name)
             b1 == IF found = 0 THEN add_record(b, Record(name)) ELSE b
             i == find(b1, name)
             r == add_phone(b1[i], phone)
         IN  IF r.exc # "" THEN Raise(r.exc, r.text, <<>>, b1)
             ELSE Return(Msg("Contact added.", <<>>), [b1 EXCEPT ![i] = r.rec])

\* add_contact
add_contact(args, b) ==
    IF Len(args) < 2 \/ ~isdigit(args[2])
    THEN Raise("ValueError", "Please provide both name and a valid phone number.", <<>>, b)
    ELSE LET name == args[1]
             phone == args[2]
             found == find(b, name)
             b1 == IF found = 0 THEN add_record(b, Record(name)) ELSE b
             message == IF found = 0 THEN "Contact added." ELSE "Contact updated."
             i == find(b1, name)
             r == add_phone(b1[i], phone)
         IN  IF r.exc # "" THEN Raise(r.exc, r.text, <<>>, b1)
             ELSE Return(Msg(message, <<>>), [b1 EXCEPT ![i] = r.rec])

\* change_phone that creates the Record it does not find
change_phone_create(args, b) ==
    LET u == Unpack(args, 3, FALSE, b)
    IN  IF u.exc # "" THEN u
        ELSE LET name == args[1]
                 old_phone == args[2]
                 new_phone == args[3]
                 b1 == IF find(b, name) = 0 THEN add_record(b, Record(name)) ELSE b
                 i == find(b1, name)
             IN  Return(Msg("Phone number {} changed to {} for contact {}.",
                            <<old_phone, new_phone, name>>),
                        [b1 EXCEPT ![i] = edit_phone(b1[i], old_phone, new_phone)])

\* change_phone
change_phone(args, b) ==
    LET u == Unpack(args, 3, FALSE, b)
    IN  IF u.exc # "" THEN u
        ELSE LET name == args[1]
                 old_phone == args[2]
                 new_phone == args[3]
                 i == find(b, name)
             IN  IF i = 0 THEN NotFound(name, b)
                 ELSE Return(Msg("Phone number {} changed to {} for contact {}.",
                                 <<old_phone, new_phone, name>>),
                             [b EXCEPT ![i] = edit_phone(b[i], old_phone, new_phone)])

\* show_phones
show_phones(args, b) ==
    LET u == Unpack(args, 1, TRUE, b)
    IN  IF u.exc # "" THEN u
        ELSE LET name == args[1]
                 i == find(b, name)
             IN  IF i = 0 THEN NotFound(name, b)
                 ELSE LET phones == Join(<<",", " ">>, b[i].phones)
                      IN  IF phones # <<>>
                          THEN Return(Msg("Contact {}'s phones: {}", <<name, phones>>), b)
                          ELSE Return(Msg("Contact {} has no phones.", <<name>>), b)

\* Record.__str__
RecordStr(r) ==
    <<"Contact name: ">> \o r.name \o <<", phones: ">> \o Join(<<",", " ">>, r.phones)
        \o <<", birthday: ">>
        \o (IF r.birthday # <<>> THEN strftime(r.birthday[1]) ELSE <<"No birthday">>)

\* show_all
show_all(b) ==
    IF Len(b) = 0 THEN Return(Msg("AddressBook is empty.", <<>>), b)
    ELSE Return(Msg("All contacts:", [i \in 1..Len(b) |-> RecordStr(b[i])]), b)

\* add_birthday
add_birthday(args, b) ==
    LET u == Unpack(args, 2, TRUE, b)
    IN  IF u.exc # "" THEN u
        ELSE LET name == args[1]
                 birthday == args[2]
                 i == find(b, name)
             IN  IF i = 0 THEN NotFound(name, b)
                 ELSE LET r == add_birthday_rec(b[i], birthday)
                      IN  IF r.exc # "" THEN Raise(r.exc, r.text, <<>>, b)
                          ELSE Return(Msg("Birthday {} added for contact {}.", <<birthday, name>>),
                                      [b EXCEPT ![i] = r.rec])

\* birthdays; today is what datetime.today() returns during the call
birthdays(args, b, today) ==
    LET days == IF Len(args) > 0 THEN PyInt(args[1]) ELSE [exc |-> "", text |-> "", value |-> 7]
    IN  IF days.exc # "" THEN Raise(days.exc, days.text, <<args[1]>>, b)
        ELSE LET up == get_upcoming_birthdays(b, today, days.value)
             IN  IF up.exc # "" THEN Raise(up.exc, up.text, <<>>, b)
                 ELSE IF Len(up.val) = 0
                 THEN Return(Msg("No upcoming birthdays in the next week.", <<>>), b)
                 ELSE Return(Msg("Upcoming birthdays:",
                                 [i \in 1..Len(up.val) |->
                                     up.val[i].name \o <<": ">> \o strftime(up.val[i].birthday[1])]), b)

----------------------------------------------------------------------------
(* The decorator                                                           *)

\* classes that derive from BaseException but not from Exception
NotExceptions == {"KeyboardInterrupt", "SystemExit", "GeneratorExit"}

\* input_error with the IndexError clause only
input_error_index_only(r) ==
    IF r.exc = "" THEN r
    ELSE IF r.exc = "IndexError"
    THEN Return([prefix |-> "Error: ", text |-> "Missing arguments.", args |-> <<>>], r.book)
    ELSE r

\* input_error: the wrapper's result for the wrapped call's result r
input_error(r) ==
    IF r.exc = "" THEN r
    ELSE IF r.exc = "ValueError"
    THEN Return([prefix |-> "Error: ", text |-> r.text, args |-> r.args], r.book)
    ELSE IF r.exc = "IndexError"
    THEN Return([prefix |-> "Error: ", text |-> "Missing arguments.", args |-> <<>>], r.book)
    ELSE IF r.exc \notin NotExceptions
    THEN Return([prefix |-> "Unexpected error: ", text |-> r.text, args |-> r.args], r.book)
    ELSE r

----------------------------------------------------------------------------
(* The parser                                                              *)

\* parse_input
parse_input(user_input) ==
    IF Strip(user_input) = <<>> THEN [command |-> <<>>, args |-> <<>>]
    ELSE LET parts == Split(Strip(user_input), " ")
         IN  [command |-> parts[1], args |-> Tail(parts)]

----------------------------------------------------------------------------
(* Input lines of the read loop                                            *)

w_close == <<"c", "l", "o", "s", "e">>
w_exit == <<"e", "x", "i", "t">>
w_hello == <<"h", "e", "l", "l", "o">>
w_add == <<"a", "d", "d">>
w_change == <<"c", "h", "a", "n", "g", "e">>
w_phone == <<"p", "h", "o", "n", "e">>
w_all == <<"a", "l", "l">>
w_add_birthday == <<"a", "d", "d", "-", "b", "i", "r", "t", "h", "d", "a", "y">>
w_birthdays == <<"b", "i", "r", "t", "h", "d", "a", "y", "s">>

Alice == <<"A", "l", "i", "c", "e">>
Bob == <<"B", "o", "b">>
Names == {Alice, Bob}

\* 0501234567 and 0509876543
Phone1 == <<"0", "5", "0", "1", "2", "3", "4", "5", "6", "7">>
Phone2 == <<"0", "5", "0", "9", "8", "7", "6", "5", "4", "3">>
\* eleven digits, and ten characters one of which is a letter
PhoneLong == Mk("1", "2", PhoneLen + 1)
PhoneAlpha == Mk("0", "x", PhoneLen)

\* 01.03.1990, 29.02.2000 and 31.02.2000
Date1 == <<"0", "1", ".", "0", "3", ".", "1", "9", "9", "0">>
DateLeap == <<"2", "9", ".", "0", "2", ".", "2", "0", "0", "0">>
DateBad == <<"3", "1", ".", "0", "2", ".", "2", "0", "0", "0">>

Line(tokens) == Join(<<" ">>, tokens)

AddLines ==
    {Line(<<w_add, n, p>>) : n \in Names, p \in {Phone1, Phone2, PhoneLong, PhoneAlpha}}
        \cup {Line(<<w_add, Alice>>), Line(<<w_add>>)}

ChangeLines ==
    {Line(<<w_change, n, o, p>>) : n \in Names, o \in {Phone1, Phone2}, p \in {Phone2, PhoneAlpha}}
        \cup {Line(<<w_change, Alice, Phone1>>)}

PhoneLines == {Line(<<w_phone, n>>) : n \in Names} \cup {Line(<<w_phone>>)}

AddBirthdayLines ==
    {Line(<<w_add_birthday, n, d>>) : n \in Names, d \in {Date1, DateLeap, DateBad}}
        \cup {Line(<<w_add_birthday, Bob>>)}

BirthdaysLines ==
    {Line(<<w_birthdays>>), Line(<<w_birthdays, <<"0">>>>), Line(<<w_birthdays, <<"5">>>>),
     Line(<<w_birthdays, <<"x">>>>)}

OtherLines ==
    {<<>>, <<" ", "\t">>, Line(<<w_hello>>), <<" ">> \o Line(<<w_hello>>) \o <<" ">>,
     Line(<<w_all>>), Line(<<w_close>>), Line(<<w_exit>>),
     Line(<<<<"C", "l", "o", "s", "e">>>>), Line(<<w_add \o <<"\t">> \o Bob, Phone1>>)}

Lines == AddLines \cup ChangeLines \cup PhoneLines \cup AddBirthdayLines
            \cup BirthdaysLines \cup OtherLines

\* parse_input of every line the loop can read
Parsed == [l \in Lines |-> parse_input(l)]

\* values of datetime.today(): 25.02.2024 09:00:00 and 01.03.2023 12:00:00
Moments == {DateTime(2024, 2, 25, 32400), DateTime(2023, 3, 1, 43200)}

----------------------------------------------------------------------------
(* main                                                                    *)

Idle == [exc |-> "idle", text |-> "", value |-> <<>>]

InitMain ==
    /\ pc = "start"
    /\ book = <<>>
    /\ disk = NoFile
    /\ line = <<>>
    /\ out = <<>>
    /\ nlines = 0
    /\ prevBook = <<>>
    /\ hist = [n \in Names |-> <<>>]
    /\ changed = {}

IdlePhone == phIn = <<>> /\ phRes = Idle

IdleBdRes == [exc |-> "idle", text |-> "", val |-> <<>>]

IdleBd == bdBook = <<>> /\ bdNow = DateTime(1, 1, 1, 0) /\ bdDays = 0 /\ bdRes = IdleBdRes

Init == InitMain /\ IdlePhone /\ IdleBd

\* the process starts: load_data, then the welcome line
Start ==
    /\ pc \in {"start", "done"}
    /\ book' = load_data(disk)
    /\ prevBook' = book
    /\ out' = <<Msg("Welcome to the assistant bot!", <<>>)>>
    /\ pc' = "loop"
    /\ line' = <<>>
    /\ UNCHANGED <<disk, nlines, hist, changed, phVars, bdVars>>

\* input() returns l
Read(l) ==
    /\ pc = "loop"
    /\ nlines < MaxLines
    /\ line' = l
    /\ nlines' = nlines + 1
    /\ prevBook' = book

\* print(handler(...)) for the wrapped handler's result r; an exception the
\* wrapper let through ends the process
PrintResult(r) ==
    /\ book' = r.book
    /\ IF r.exc = "" THEN out' = <<r.val>> /\ pc' = "loop"
       ELSE out' = <<>> /\ pc' = "crashed"
    /\ UNCHANGED <<disk, phVars, bdVars>>

\* a fixed line printed by main itself
PrintLine(t) ==
    /\ out' = <<Msg(t, <<>>)>>
    /\ UNCHANGED <<book, hist, changed, phVars, bdVars>>

Blank(l) ==
    /\ Read(l)
    /\ Parsed[l].command = <<>>
    /\ PrintLine("Please enter a valid command.")
    /\ UNCHANGED <<pc, disk>>

Exit(l) ==
    /\ Read(l)
    /\ Parsed[l].command \in {w_close, w_exit}
    /\ PrintLine("Good bye!")
    /\ disk' = save_data(book)
    /\ pc' = "done"

Hello(l) ==
    /\ Read(l)
    /\ Parsed[l].command = w_hello
    /\ PrintLine("How can I help you?")
    /\ UNCHANGED <<pc, disk>>

Add(l) ==
    LET p == Parsed[l]
        r == input_error(add_contact(p.args, book))
    IN  /\ Read(l)
        /\ p.command = w_add
        /\ PrintResult(r)
        /\ hist' = IF r.exc = "" /\ r.val.prefix = ""
                   THEN [hist EXCEPT ![p.args[1]] = Append(@, p.args[2])] ELSE hist
        /\ UNCHANGED changed

Change(l) ==
    LET p == Parsed[l]
        r == input_error(change_phone(p.args, book))
    IN  /\ Read(l)
        /\ p.command = w_change
        /\ PrintResult(r)
        /\ changed' = IF /\ r.exc = "" /\ r.val.prefix = ""
                         /\ find(book, p.args[1]) # 0
                         /\ FirstPhone(book[find(book, p.args[1])].phones, p.args[2]) # 0
                      THEN changed \cup {p.args[1]} ELSE changed
        /\ UNCHANGED hist

ShowPhones(l) ==
    LET p == Parsed[l]
    IN  /\ Read(l)
        /\ p.command = w_phone
        /\ PrintResult(input_error(show_phones(p.args, book)))
        /\ UNCHANGED <<hist, changed>>

ShowAll(l) ==
    /\ Read(l)
    /\ Parsed[l].command = w_all
    /\ PrintResult(input_error(show_all(book)))
    /\ UNCHANGED <<hist, changed>>

AddBirthday(l) ==
    LET p == Parsed[l]
    IN  /\ Read(l)
        /\ p.command = w_add_birthday
        /\ PrintResult(input_error(add_birthday(p.args, book)))
        /\ UNCHANGED <<hist, changed>>

Birthdays(l, today) ==
    LET p == Parsed[l]
    IN  /\ Read(l)
        /\ p.command = w_birthdays
        /\ PrintResult(input_error(birthdays(p.args, book, today)))
        /\ UNCHANGED <<hist, changed>>

Commands == {w_close, w_exit, w_hello, w_add, w_change, w_phone, w_all, w_add_birthday, w_birthdays}

Invalid(l) ==
    /\ Read(l)
    /\ Parsed[l].command \notin Commands \cup {<<>>}
    /\ PrintLine("Invalid command.")
    /\ UNCHANGED <<pc, disk>>

Next ==
    \/ Start
    \/ \E l \in Lines : Blank(l)
    \/ \E l \in Lines : Exit(l)
    \/ \E l \in Lines : Hello(l)
    \/ \E l \in Lines : Add(l)
    \/ \E l \in Lines : Change(l)
    \/ \E l \in Lines : ShowPhones(l)
    \/ \E l \in Lines : ShowAll(l)
    \/ \E l \in Lines : AddBirthday(l)
    \/ \E l \in Lines, today \in Moments : Birthdays(l, today)
    \/ \E l \in Lines : Invalid(l)

Spec == Init /\ [][Next]_vars

----------------------------------------------------------------------------
(* The Phone constructor on its own                                        *)

PhoneChars == {"0", "7", "x", "U+00B2", "U+0663"}

Reverse(str) == [i \in 1..Len(str) |-> str[Len(str) + 1 - i]]

PhoneInputs ==
    {Mk(c, d, n) : c \in PhoneChars, d \in PhoneChars, n \in 0..MaxPhoneLen}
        \cup {Reverse(Mk(c, d, n)) : c \in PhoneChars, d \in PhoneChars, n \in 0..MaxPhoneLen}

InitPhone ==
    /\ InitMain
    /\ IdleBd
    /\ phIn \in PhoneInputs
    /\ phRes = Idle

\* Phone(phIn)
Construct ==
    /\ phRes = Idle
    /\ phRes' = Phone(phIn)
    /\ UNCHANGED <<phIn, mainVars, bdVars>>

NextPhone == Construct

SpecPhone == InitPhone /\ [][NextPhone]_vars

----------------------------------------------------------------------------
(* get_upcoming_birthdays on its own                                       *)

\* stored birthdays: what Birthday() keeps, a date at midnight
BdBirthdays ==
    {DateTime(1990, 12, 29, 0), DateTime(1990, 12, 30, 0), DateTime(1990, 12, 31, 0),
     DateTime(1991, 1, 1, 0), DateTime(1991, 1, 2, 0), DateTime(1992, 2, 28, 0),
     DateTime(2000, 2, 29, 0), DateTime(1993, 3, 1, 0)}

BdRecords(name) ==
    {[name |-> name, phones |-> <<Phone1>>, birthday |-> bd] :
        bd \in {<<>>} \cup {<<d>> : d \in BdBirthdays}}

BdBooks == {<<a, b>> : a \in BdRecords(Alice), b \in BdRecords(Bob)}

\* midnight, one second past it and the last second of three days
BdMoments ==
    {DateTime(d[1], d[2], d[3], t) :
        d \in {<<2023, 12, 30>>, <<2023, 2, 28>>, <<2024, 2, 28>>}, t \in {0, 1, 86399}}

BdWindows == (0..MaxWindow) \cup {7, 365}

InitBd ==
    /\ InitMain
    /\ IdlePhone
    /\ bdBook \in BdBooks
    /\ bdNow \in BdMoments
    /\ bdDays \in BdWindows
    /\ bdRes = IdleBdRes

\* bdBook.get_upcoming_birthdays(bdDays) at the moment bdNow
GetUpcoming ==
    /\ bdRes = IdleBdRes
    /\ bdRes' = get_upcoming_birthdays(bdBook, bdNow, bdDays)
    /\ UNCHANGED <<bdBook, bdNow, bdDays, mainVars, phVars>>

NextBd == GetUpcoming

SpecBd == InitBd /\ [][NextBd]_vars

----------------------------------------------------------------------------
(* Properties                                                              *)

Welcome == <<Msg("Welcome to the assistant bot!", <<>>)>>

\* the process has just started: nothing printed but the welcome line
JustStarted == pc = "loop" /\ out = Welcome

\* the last step read `line` and handled it
Handled == nlines > 0 /\ pc # "start" /\ out # Welcome

Cmd == Parsed[line].command

Args == Parsed[line].args

IsError(m) == m.prefix \in {"Error: ", "Unexpected error: "}

\* a string of exactly 10 decimal digits
TenDecimalDigits(str) ==
    /\ Len(str) = 10
    /\ \A i \in 1..Len(str) : str[i] \in AsciiDigits \cup UnicodeDecimals

\* C1: `phone NAME`, for a NAME no change command has edited, returns exactly
\* the phone values of the adds for NAME that succeeded, once per add and in
\* the order of the adds; when some add succeeded the reply is the phone list.
C1_PhoneReturnsAdded ==
    (Handled /\ Cmd = w_phone /\ Len(Args) >= 1 /\ Args[1] \in Names /\ Args[1] \notin changed)
        => LET name == Args[1]
               h == hist[name]
           IN  /\ Len(out) = 1
               /\ h # <<>> => out[1] = Msg("Contact {}'s phones: {}", <<name, Join(<<",", " ">>, h)>>)
               /\ h = <<>> => \/ out[1] = Msg("Contact {} has no phones.", <<name>>)
                              \/ IsError(out[1])
               /\ find(book, name) # 0 => book[find(book, name)].phones = h

C1_Witness ==
    /\ Handled /\ Cmd = w_phone /\ Len(Args) >= 1 /\ Args[1] \in Names /\ Args[1] \notin changed
    /\ Len(hist[Args[1]]) >= 2
    /\ hist[Args[1]][1] # hist[Args[1]][2]
    /\ out[1].prefix = ""

\* C2: an add with a valid phone answers "Contact added." exactly when NAME had
\* no Record and "Contact updated." exactly when it had one; afterwards the book
\* holds one Record for NAME, its phones are the previous phones with PHONE
\* appended, and every other Record is as it was.
C2_AddCreatesOrReuses ==
    (Handled /\ Cmd = w_add /\ Len(Args) >= 2 /\ TenDecimalDigits(Args[2]))
        => LET name == Args[1]
               i == find(prevBook, name)
               before == IF i = 0 THEN <<>> ELSE prevBook[i].phones
           IN  /\ out = <<Msg(IF i = 0 THEN "Contact added." ELSE "Contact updated.", <<>>)>>
               /\ Cardinality({j \in 1..Len(book) : book[j].name = name}) = 1
               /\ book[find(book, name)].phones = Append(before, Args[2])
               /\ Len(book) = Len(prevBook) + (IF i = 0 THEN 1 ELSE 0)
               /\ \A j \in 1..Len(prevBook) : prevBook[j].name # name => book[j] = prevBook[j]
               /\ i # 0 => book[i].birthday = prevBook[i].birthday

C2_Witness ==
    /\ Handled /\ Cmd = w_add /\ Len(Args) >= 2 /\ TenDecimalDigits(Args[2])
    /\ Len(prevBook) = 2
    /\ find(prevBook, Args[1]) # 0
    /\ Len(prevBook[find(prevBook, Args[1])].phones) >= 1
    /\ out = <<Msg("Contact updated.", <<>>)>>

\* C3: a change for an existing NAME whose phone list does not hold OLD leaves
\* that list and every other Record unchanged.
C3_ChangeAbsentIsNoOp ==
    (/\ Handled /\ Cmd = w_change /\ Len(Args) = 3
     /\ find(prevBook, Args[1]) # 0
     /\ FirstPhone(prevBook[find(prevBook, Args[1])].phones, Args[2]) = 0)
        => book = prevBook

C3_Witness ==
    /\ Handled /\ Cmd = w_change /\ Len(Args) = 3
    /\ find(prevBook, Args[1]) # 0
    /\ FirstPhone(prevBook[find(prevBook, Args[1])].phones, Args[2]) = 0
    /\ Len(prevBook[find(prevBook, Args[1])].phones) >= 1
    /\ Len(prevBook) = 2
    /\ out[1].prefix = ""

\* C5: every line read gets exactly one message, no exception leaves a
\* handler, and the loop goes on to the next line unless the command was
\* close or exit, which are the only commands that end it.
C5_OneMessagePerLine ==
    Handled => /\ pc \in {"loop", "done"}
               /\ Len(out) = 1
               /\ pc = "done" <=> Cmd \in {w_close, w_exit}

C5_Witness ==
    /\ Handled /\ pc = "loop"
    /\ Cmd = w_birthdays
    /\ out[1].prefix = "Error: "
    /\ out[1].text = "day is out of range for month"

\* C6: the snapshot written by close/exit holds the book as it is in memory at
\* that moment, and the next start loads a book identical to it.
C6_SnapshotRoundTrip ==
    /\ pc = "done" => disk.exists /\ load_data(disk) = book
    /\ (JustStarted /\ disk.exists) => book = prevBook

C6_Witness ==
    /\ JustStarted /\ disk.exists
    /\ Len(book) = 2
    /\ book[1].birthday # <<>> /\ book[2].birthday = <<>>
    /\ Len(book[1].phones) >= 1 /\ Len(book[2].phones) >= 1

\* C8: change, phone and add-birthday for a name without a Record answer with
\* an error, create no Record for it and leave the book unchanged.
C8_UnknownNameIsError ==
    (/\ Handled /\ Cmd \in {w_change, w_phone, w_add_birthday}
     /\ Len(Args) >= 1 /\ find(prevBook, Args[1]) = 0)
        => /\ Len(out) = 1 /\ IsError(out[1])
           /\ find(book, Args[1]) = 0
           /\ book = prevBook

C8_Witness ==
    /\ Handled /\ Cmd = w_change /\ Len(Args) = 3
    /\ find(prevBook, Args[1]) = 0
    /\ Len(prevBook) >= 1
    /\ out[1].text = "Contact {} not found in AddressBook."

\* C9: an add that answers with an error leaves the book unchanged.
C9_FailedAddLeavesBook ==
    (Handled /\ Cmd = w_add /\ Len(out) = 1 /\ IsError(out[1])) => book = prevBook

\* C10: every phone value stored in the book is a string of exactly 10
\* decimal digits.
C10_StoredPhonesValid ==
    \A i \in 1..Len(book) : \A j \in 1..Len(book[i].phones) : TenDecimalDigits(book[i].phones[j])

\* C7: Phone construction succeeds for every string of exactly 10 decimal
\* digits, fails otherwise, and a failed construction stores no value.
C7_PhoneAcceptsExactlyTenDigits ==
    phRes # Idle => /\ phRes.exc = "" <=> TenDecimalDigits(phIn)
                    /\ phRes.exc = "" => phRes.value = phIn
                    /\ phRes.exc # "" => phRes.exc = "ValueError" /\ phRes.value = <<>>

\* the calendar day of a datetime, as an ordinal
Day(dt) == Ordinal(dt.y, dt.m, dt.d)

RECURSIVE NextOccurrence(_, _, _)
\* the first day on or after `today` that has the birthday's month and day,
\* looking from year y on
NextOccurrence(bd, today, y) ==
    IF bd.d <= DaysInMonth(y, bd.m) /\ Ordinal(y, bd.m, bd.d) >= Day(today)
    THEN Ordinal(y, bd.m, bd.d)
    ELSE NextOccurrence(bd, today, y + 1)

InWindow(rec, today, days) ==
    /\ rec.birthday # <<>>
    /\ NextOccurrence(rec.birthday[1], today, today.y) - Day(today) \in 0..days

\* C4: get_upcoming_birthdays(days) returns exactly the Records whose next
\* birthday is a calendar day in [today, today + days], in the book's order.
C4_UpcomingWindow ==
    bdRes # IdleBdRes
        => /\ bdRes.exc = ""
           /\ bdRes.val = SelectSeq(bdBook, LAMBDA rec : InWindow(rec, bdNow, bdDays))

====
